---- MODULE Spec2Model ----
(***************************************************************************)
(* Model of ov_cmdb_sync: one invocation of main() against a target        *)
(* (Opsview) and a source (ServiceNow CMDB).                               *)
(*                                                                         *)
(* Strings whose content the code inspects (matpaths, instance names,      *)
(* variable names, descriptions, URLs) are sequences of tokens, so that    *)
(* startswith, split and concatenation are computed and not assumed.       *)
(***************************************************************************)
EXTENDS Integers, Sequences, FiniteSets, TLC

\* ------------------------------------------------------------------ bounds
\* The longest list of desired hosts the source reports.
MaxSnowHosts == 2
\* The most objects the target holds at the start, not counting the root
\* hostgroup.
MaxTargetObjects == 4
\* the longest collection and the deepest matpath handed to a collection method
MaxListLen == 3
MaxMatpathDepth == 5
\* the largest number of hosts of a BSM component
MaxQuorumHosts == 4
\* the number of sync passes run one after the other
MaxPasses == 4

\* ----------------------------------------------------------------- strings
StartsWith(s, p) == Len(p) <= Len(s) /\ SubSeq(s, 1, Len(p)) = p

Range(s) == { s[i] : i \in 1..Len(s) }

RECURSIVE SeqById(_)
SeqById(S) ==
    IF S = {} THEN <<>>
    ELSE LET m == CHOOSE x \in S : \A y \in S : x.id <= y.id
         IN <<m>> \o SeqById(S \ {m})

\* The instance that is synced or purged, and another instance whose
\* identifier has the first one as a proper prefix.
InstanceX == <<"a">>
InstanceY == <<"a", "b">>

HostNames == {"h1", "h2"}

SERVICENOW_INSTANCE == <<"SERVICENOW_", "INSTANCE">>
SERVICENOW_SYS_ID == <<"SERVICENOW_", "SYS_ID">>
SERVICENOW_SETTINGS == <<"SERVICENOW_", "SETTINGS">>
OTHER_VARIABLE == <<"OTHER">>

OpsviewMatpath == <<"Opsview", ",">>
ServiceNowMatpath == <<"Opsview", ",", "ServiceNow", ",">>
InstanceMatpath(instance) == ServiceNowMatpath \o instance \o <<",">>
ClassMatpath(instance) == InstanceMatpath(instance) \o <<"cmdb_ci_server", ",">>

\* Variant for C18: a hostgroup constructed without a parent has none.
HostGroup_NoDefaultParent(name, parent) ==
    [name |-> name,
     matpath |-> IF parent # <<>> THEN parent[1].matpath \o name \o <<",">>
                 ELSE name \o <<",">>,
     parent |-> parent]

\* HostGroup.__init__ and __with_matpath.  parent is <<>> (None) or <<p>>.
HostGroup(name, parent) ==
    LET root == [name |-> <<"Opsview">>, matpath |-> <<"Opsview", ",">>, parent |-> <<>>]
        p == IF parent # <<>> THEN parent
             ELSE IF name # <<"Opsview">> THEN <<root>>
             ELSE <<>>
    IN [name |-> name,
        matpath |-> IF p # <<>> THEN p[1].matpath \o name \o <<",">>
                    ELSE name \o <<",">>,
        parent |-> p]

\* ------------------------------------------------------------ the target
\* Host attributes of a target host: none, or the provenance attributes that
\* servicenow.Host gives a host of an instance.
SnowAttributes(instance) ==
    << [name |-> SERVICENOW_SYS_ID, value |-> <<"sys_id">>],
       [name |-> SERVICENOW_INSTANCE, value |-> instance] >>

HostAttributeSets == { <<>>, SnowAttributes(InstanceX), SnowAttributes(InstanceY) }

HostId(n) == IF n = "h1" THEN 1 ELSE IF n = "h2" THEN 2 ELSE 3

TargetHost(n, attrs) == [id |-> HostId(n), name |-> n, hostattributes |-> attrs]

TargetHostInventories ==
    UNION { { { TargetHost(n, k[n]) : n \in D } : k \in [D -> HostAttributeSets] }
            : D \in SUBSET HostNames }

CreatedBySync == <<"Created by Opsview CMDB Sync">>

\* Hashtag 2 is attached to whatever hosts the target holds.
HashtagUniverse(hostNames) ==
    { [id |-> 1, name |-> "orphan", description |-> CreatedBySync \o <<" (a)">>,
       hosts |-> {}, servicechecks |-> {}],
      [id |-> 2, name |-> "a", description |-> CreatedBySync \o <<" (a)">>,
       hosts |-> hostNames, servicechecks |-> {}],
      [id |-> 3, name |-> "checks", description |-> CreatedBySync,
       hosts |-> {}, servicechecks |-> {"ping"}],
      [id |-> 4, name |-> "manual", description |-> <<"Created by hand">>,
       hosts |-> {}, servicechecks |-> {}] }

TargetHashtagInventories(hostNames) == SUBSET HashtagUniverse(hostNames)

RootHostgroup == [id |-> 1, name |-> <<"Opsview">>, matpath |-> OpsviewMatpath]

HostgroupUniverse ==
    { RootHostgroup,
      [id |-> 2, name |-> <<"ServiceNow">>, matpath |-> ServiceNowMatpath],
      [id |-> 3, name |-> InstanceX, matpath |-> InstanceMatpath(InstanceX)],
      [id |-> 4, name |-> <<"cmdb_ci_server">>, matpath |-> ClassMatpath(InstanceX)],
      [id |-> 5, name |-> InstanceY, matpath |-> InstanceMatpath(InstanceY)],
      [id |-> 6, name |-> <<"cmdb_ci_server">>, matpath |-> ClassMatpath(InstanceY)] }

\* The target keeps its hostgroups a tree: every group but the root has its
\* parent.
ParentClosed(S) ==
    \A g \in S : g = RootHostgroup
                 \/ \E p \in S : g.matpath = p.matpath \o g.name \o <<",">>

TargetHostgroupInventories ==
    { S \in SUBSET HostgroupUniverse : RootHostgroup \in S /\ ParentClosed(S) }

VariableUniverse ==
    { [id |-> 1, name |-> SERVICENOW_INSTANCE],
      [id |-> 2, name |-> SERVICENOW_SYS_ID],
      [id |-> 3, name |-> SERVICENOW_SETTINGS],
      [id |-> 4, name |-> OTHER_VARIABLE] }

TargetVariableInventories == SUBSET VariableUniverse

\* ------------------------------------------------------------- the source
\* A host as servicenow.Host.as_opsview_host builds it for an asset of the
\* instance (servicenow.py:119-124, 206-233): provenance attributes and the
\* class hostgroup of the instance.
SnowHost(n, instance) ==
    LET root_hostgroup == HostGroup(<<"Opsview">>, <<>>)
        snow_parent == HostGroup(<<"ServiceNow">>, <<root_hostgroup>>)
        instance_parent == HostGroup(instance, <<snow_parent>>)
    IN [name |-> n, id |-> 0, hostattributes |-> SnowAttributes(instance),
        hostgroup |-> HostGroup(<<"cmdb_ci_server">>, <<instance_parent>>)]

RECURSIVE SeqsUpTo(_, _)
SeqsUpTo(S, n) ==
    IF n = 0 THEN { <<>> }
    ELSE LET shorter == SeqsUpTo(S, n - 1)
         IN shorter \cup { Append(s, x) : s \in shorter, x \in S }

SnowHostLists == SeqsUpTo({ SnowHost(n, InstanceX) : n \in HostNames }, MaxSnowHosts)

\* ------------------------------------------------------------------ state
VARIABLES
    args,             \* util.parse_args(): dry_run, force, purge_snow_instance
    tPending,         \* target: configuration_status = "pending"
    tHosts, tHashtags, tHostgroups, tVariables,   \* target: its objects
    observed,         \* entity types of the target enumerated so far
    unseen,           \* how many objects the types not yet enumerated can hold
    has,              \* session: which known_* attributes exist (hasattr)
    enumerated,       \* per entity type, the enumerations that a check of the
                      \* memoized list has triggered
    known_hosts, known_hashtags, known_hostgroups, known_variables,
    sessions,         \* the sessions that are open
    pc, stack,        \* position in the code, and where calls return to
    instance,         \* the instance argument of the running function
    snow_hosts,       \* the desired hosts, from the source
    objects,          \* self.objects of the HostList in use
    hosts_to_delete, hosts_to_create,
    hostgroups, variables,   \* the prerequisite collections of create_objects
    ids_to_delete,    \* the identifiers a delete loop still has to send
    log,              \* mutating requests and prompts, in the order issued
    exit_code

targetVars == <<tPending, tHosts, tHashtags, tHostgroups, tVariables, observed, unseen>>
cacheVars == <<has, enumerated, known_hosts, known_hashtags, known_hostgroups, known_variables>>
localVars == <<instance, snow_hosts, objects, hosts_to_delete, hosts_to_create,
               hostgroups, variables, ids_to_delete>>
vars == <<args, targetVars, cacheVars, sessions, pc, stack, localVars, log, exit_code>>

NoInstance == <<>>

EntityTypes == {"host", "hashtag", "hostgroup", "variable"}

\* --snow-url of a sync run, as given and with the scheme spelled out
SnowUrls == { InstanceX, <<"https://">> \o InstanceX }

\* A purge run (main.py:73-77 never reads dry_run) or a sync run.
Args ==
    { [dry_run |-> FALSE, force |-> f, purge_snow_instance |-> InstanceX]
      : f \in BOOLEAN }
    \cup
    { [dry_run |-> d, force |-> f, purge_snow_instance |-> NoInstance]
      : d \in BOOLEAN, f \in BOOLEAN }

\* After main has opened the Opsview session (main.py:58).  What the target
\* holds of an entity type is fixed when the run first enumerates that type.
Init ==
    /\ args \in Args
    /\ tPending \in BOOLEAN
    /\ tHosts = {} /\ tHashtags = {} /\ tHostgroups = {} /\ tVariables = {}
    /\ observed = {}
    /\ unseen = MaxTargetObjects
    /\ has = {}
    /\ enumerated = [type \in EntityTypes |-> 0]
    /\ known_hosts = <<>> /\ known_hashtags = <<>>
    /\ known_hostgroups = <<>> /\ known_variables = <<>>
    /\ sessions = {"ov"}
    /\ pc = "handle_pending_changes" /\ stack = <<>>
    /\ instance = <<>>
    /\ snow_hosts = <<>>
    /\ objects = <<>>
    /\ hosts_to_delete = <<>> /\ hosts_to_create = <<>>
    /\ hostgroups = <<>> /\ variables = <<>>
    /\ ids_to_delete = <<>>
    /\ log = <<>>
    /\ exit_code = -1

\* ---------------------------------------------------------------- helpers
Goto(label) == pc' = label /\ UNCHANGED <<stack, exit_code>>
Call(label, ret) == pc' = label /\ stack' = <<ret>> \o stack /\ UNCHANGED exit_code
Return == pc' = Head(stack) /\ stack' = Tail(stack) /\ UNCHANGED exit_code
Exit(code) == pc' = "exit" /\ stack' = <<>> /\ exit_code' = code
\* Variant for C23: the failure is logged and the step is taken again.
Raise_Retries == UNCHANGED <<pc, stack, exit_code>>

\* An exception no caller catches: main has no handler, the process ends.
Raise == pc' = "raised" /\ stack' = <<>> /\ exit_code' = 1

Event(kind, type, keys, ok) == [kind |-> kind, type |-> type, keys |-> keys, ok |-> ok]
Issue(kind, type, keys, ok) == log' = Append(log, Event(kind, type, keys, ok))

Names(list) == { list[i].name : i \in 1..Len(list) }
Ids(list) == { list[i].id : i \in 1..Len(list) }
Matpaths(list) == { list[i].matpath : i \in 1..Len(list) }

with_https(url) ==
    IF StartsWith(url, <<"https://">>) THEN url ELSE <<"https://">> \o url

snow_instance_from_url(url) ==
    LET rest == IF Len(url) > 0 /\ url[1] \in {"https://", "http://"}
                THEN Tail(url) ELSE url
    IN IF Len(rest) > 0 /\ rest[Len(rest)] = "/"
       THEN SubSeq(rest, 1, Len(rest) - 1) ELSE rest

\* Session.populate_known_entities: the entities in the order enumerated,
\* the first one of each key.
populate_known_entities(entities, entity_key) ==
    LET F[i \in 0..Len(entities)] ==
            IF i = 0 THEN <<>>
            ELSE IF \E j \in 1..Len(F[i - 1]) : F[i - 1][j][entity_key] = entities[i][entity_key]
                 THEN F[i - 1]
                 ELSE Append(F[i - 1], entities[i])
    IN F[Len(entities)]

\* get_objects: the target's objects of a type, as enumerated.
get_objects(inventory) == SeqById(inventory)

\* What a first enumeration of a type finds; later ones find what the target
\* then holds.
Found(type, current, inventories) ==
    IF type \in observed THEN { current }
    ELSE { inv \in inventories : Cardinality(inv \ {RootHostgroup}) <= unseen }

Observe(type, found) ==
    /\ observed' = observed \cup {type}
    /\ unseen' = IF type \in observed THEN unseen
                 ELSE unseen - Cardinality(found \ {RootHostgroup})

\* HostList.from_snow_instance: the Host objects built from the target's
\* hosts that carry SERVICENOW_INSTANCE = instance.
IsInstanceHost(host, inst) ==
    \E i \in 1..Len(host.hostattributes) :
        /\ host.hostattributes[i].name = SERVICENOW_INSTANCE
        /\ host.hostattributes[i].value = inst

HostFromTarget(host) ==
    [name |-> host.name, id |-> host.id, hostattributes |-> host.hostattributes,
     hostgroup |-> HostGroup(<<"cmdb_ci_server">>, <<>>)]

from_snow_instance(all_hosts, inst) ==
    LET instance_hosts == SelectSeq(all_hosts, LAMBDA host : IsInstanceHost(host, inst))
    IN [i \in 1..Len(instance_hosts) |-> HostFromTarget(instance_hosts[i])]

\* Variant for C4: every host of the instance is to be deleted.
HostsToDelete_All(self_objects, snowHosts) == self_objects

\* HostList.sync_from_snow_instance, the two list comprehensions.
HostsToDelete(self_objects, snowHosts) ==
    SelectSeq(self_objects, LAMBDA host : host.name \notin Names(snowHosts))

HostsToCreate(self_objects, snowHosts) ==
    LET existing_host_names == Names(self_objects)
    IN SelectSeq(snowHosts, LAMBDA snow_host : snow_host.name \notin existing_host_names)

\* Variant for C5: the create branch is tried first.
SyncBranch_CreateFirst(toDelete, toCreate) ==
    IF toCreate # <<>> THEN "create"
    ELSE IF toDelete # <<>> THEN "delete"
    ELSE "none"

\* HostList.sync_from_snow_instance, the if / elif / else on the two lists.
SyncBranch(toDelete, toCreate) ==
    IF toDelete = <<>> /\ toCreate = <<>> THEN "none"
    ELSE IF toDelete # <<>> THEN "delete"
    ELSE "create"

\* Variant for C2: the check never aborts.
AbortOnPending_Never(pending, force) == FALSE

\* Session.handle_pending_changes: the condition of sys.exit(1).
AbortOnPending(pending, force) == pending /\ ~force

\* input(...).lower() != "y"
Answers == {"y", "Y", "n", ""}
Lower(answer) == IF answer = "Y" THEN "y" ELSE answer
Confirmed(answer) == Lower(answer) = "y"

\* ------------------------------------------------------------------- main
\* main.py:67-77
handle_pending_changes ==
    /\ pc = "handle_pending_changes"
    /\ IF AbortOnPending(tPending, args.force)
       THEN Exit(1) /\ UNCHANGED instance
       ELSE IF args.purge_snow_instance # NoInstance
            THEN /\ Call("purge_snow_hosts", "main_apply_changes")
                 /\ instance' = args.purge_snow_instance
            ELSE Goto("opsview_host_list") /\ UNCHANGED instance
    /\ UNCHANGED <<args, targetVars, cacheVars, sessions, log, snow_hosts, objects,
                   hosts_to_delete, hosts_to_create, hostgroups, variables,
                   ids_to_delete>>

\* main.py:80-115: the ServiceNow session is opened, the desired hosts are
\* read from the source, the host inventory is populated and
\* sync_from_snow_instance is entered with --snow-url.  The conversion of assets into hosts
\* (servicenow.opsview_host_list) is not modelled: its result is an input.
opsview_host_list ==
    /\ pc = "opsview_host_list"
    /\ sessions' = sessions \cup {"snow"}
    /\ snow_hosts' \in SnowHostLists
    /\ \E found \in Found("host", tHosts, TargetHostInventories) :
          /\ tHosts' = found
          /\ Observe("host", found)
          /\ known_hosts' = populate_known_entities(get_objects(found), "name")
    /\ has' = has \cup {"host"}
    /\ UNCHANGED enumerated
    /\ instance' \in SnowUrls
    /\ Call("sync_from_snow_instance", "main_after_sync")
    /\ UNCHANGED <<args, tPending, tHashtags, tHostgroups, tVariables,
                   known_hashtags, known_hostgroups, known_variables, log, objects,
                   hosts_to_delete, hosts_to_create, hostgroups, variables,
                   ids_to_delete>>

\* main.py:117-119
main_after_sync ==
    /\ pc = "main_after_sync"
    /\ IF args.dry_run THEN Exit(0) ELSE Goto("main_apply_changes")
    /\ UNCHANGED <<args, targetVars, cacheVars, sessions, localVars, log>>

\* Variant for C12: the reload is requested whatever the target reports.
ReloadNeeded_Always(pending) == TRUE

\* Session.apply_changes, opsview.py:227-228: "if not self.changes_to_apply()"
ReloadNeeded(pending) == pending

\* Session.apply_changes, called at main.py:75 and main.py:126
apply_changes ==
    /\ pc = "main_apply_changes"
    /\ IF ~ReloadNeeded(tPending)
       THEN Goto("main_close") /\ UNCHANGED <<tPending, log>>
       ELSE \E ok \in BOOLEAN :
               /\ Issue("POST", "reload", <<>>, ok)
               /\ IF ok THEN tPending' = FALSE /\ Goto("main_close")
                        ELSE Raise /\ UNCHANGED tPending
    /\ UNCHANGED <<args, tHosts, tHashtags, tHostgroups, tVariables, observed, unseen,
                   cacheVars, sessions, localVars>>

\* main.py:76-77 and main.py:130-132, with Session.close: the client is
\* closed only when the logout request succeeds.
main_close ==
    /\ pc = "main_close"
    /\ \E logout_ok \in BOOLEAN :
          sessions' = (sessions \ {"snow"}) \ (IF logout_ok THEN {"ov"} ELSE {})
    /\ Exit(0)
    /\ UNCHANGED <<args, targetVars, cacheVars, localVars, log>>

\* ------------------------------------------------ target: effect of requests
DeleteHostsInTarget(ids) ==
    LET gone == { h.name : h \in { x \in tHosts : x.id \in ids } }
    IN /\ tHosts' = { h \in tHosts : h.id \notin ids }
       /\ tHashtags' = { [t EXCEPT !.hosts = @ \ gone] : t \in tHashtags }
       /\ tPending' = TRUE

\* Variant for C24: only the first host is named in the request.
HostListDeleteIds_FirstOnly(list) == <<list[1].id>>

\* HostList.delete: the identifiers of the one DELETE request.
HostListDeleteIds(list) == [i \in 1..Len(list) |-> list[i].id]

\* ------------------------------------------- HostList.sync_from_snow_instance
\* opsview.py:1619-1647: the source reports no host
sync_no_snow_hosts ==
    /\ pc = "sync_from_snow_instance"
    /\ snow_hosts = <<>>
    /\ instance' = snow_instance_from_url(with_https(instance))
    /\ IF args.dry_run THEN Return
       ELSE IF ~args.force THEN Goto("sync_confirm")
       ELSE Goto("purge_snow_hosts")
    /\ UNCHANGED <<args, targetVars, cacheVars, sessions, log, snow_hosts, objects,
                   hosts_to_delete, hosts_to_create, hostgroups, variables,
                   ids_to_delete>>

\* opsview.py:1637-1647: the prompt of the sync pass
sync_confirm ==
    /\ pc = "sync_confirm"
    /\ \E answer \in Answers :
          /\ Issue("input", "sync", <<>>, Confirmed(answer))
          /\ IF Confirmed(answer) THEN Goto("purge_snow_hosts") ELSE Return
    /\ UNCHANGED <<args, targetVars, cacheVars, sessions, localVars>>

\* opsview.py:1619-1622 and 1649-1690: the diff and the choice of the branch
sync_diff ==
    /\ pc = "sync_from_snow_instance"
    /\ snow_hosts # <<>>
    /\ LET inst == snow_instance_from_url(with_https(instance))
           self_objects == from_snow_instance(get_objects(tHosts), inst)
           toDelete == HostsToDelete(self_objects, snow_hosts)
           toCreate == HostsToCreate(self_objects, snow_hosts)
           branch == SyncBranch(toDelete, toCreate)
       IN /\ instance' = inst
          /\ objects' = self_objects
          /\ hosts_to_delete' = toDelete
          /\ hosts_to_create' = toCreate
          /\ IF branch = "delete" /\ ~args.dry_run THEN Goto("sync_delete")
             ELSE IF branch = "create" /\ ~args.dry_run THEN Goto("create_hosts")
             ELSE Goto("prune_snow_hashtags")
    /\ UNCHANGED <<args, targetVars, cacheVars, sessions, log, snow_hosts,
                   hostgroups, variables, ids_to_delete>>

\* opsview.py:1682 with HostList.delete
sync_delete ==
    /\ pc = "sync_delete"
    /\ \E ok \in BOOLEAN :
          /\ Issue("DELETE", "host", HostListDeleteIds(hosts_to_delete), ok)
          /\ IF ok THEN /\ DeleteHostsInTarget(Ids(hosts_to_delete))
                        /\ Goto("prune_snow_hashtags")
                   ELSE Raise /\ UNCHANGED <<tHosts, tHashtags, tPending>>
    /\ UNCHANGED <<args, tHostgroups, tVariables, observed, unseen, cacheVars, sessions,
                   localVars>>

\* ------------------------------------------------------ prune_snow_hashtags
\* opsview.py:2074: "not hasattr(session, attr) or not session.attr"
MustPopulate(type, known) == type \notin has \/ known = <<>>

\* The enumerations that a number of successive checks of one memoized list
\* trigger: none when the list is there and not empty; otherwise the first
\* check enumerates, and so does every later one if the list stays empty.
Triggered(must, populated, checks) ==
    IF ~must \/ checks = 0 THEN 0
    ELSE IF populated = <<>> THEN checks
    ELSE 1

Enumerate(counts) ==
    enumerated' = [type \in EntityTypes |->
                      enumerated[type] + (IF type \in DOMAIN counts THEN counts[type] ELSE 0)]

\* Variant for C10: a hashtag that still has hosts is pruned too.
HashtagToPrune_IgnoresHosts(hashtag) ==
    /\ StartsWith(hashtag.description, CreatedBySync)
    /\ hashtag.servicechecks = {}

\* opsview.py:2081-2085
HashtagToPrune(hashtag) ==
    /\ StartsWith(hashtag.description, CreatedBySync)
    /\ hashtag.hosts = {}
    /\ hashtag.servicechecks = {}

IdsOf(chosen) == [i \in 1..Len(chosen) |-> chosen[i].id]

\* opsview.py:2074-2093: the inventory, and the identifiers to delete
prune_snow_hashtags ==
    /\ pc = "prune_snow_hashtags"
    /\ \E found \in Found("hashtag", tHashtags,
                          TargetHashtagInventories({ h.name : h \in tHosts })) :
          LET known == IF MustPopulate("hashtag", known_hashtags)
                       THEN populate_known_entities(get_objects(found), "name")
                       ELSE known_hashtags
              ids == IdsOf(SelectSeq(known, HashtagToPrune))
          IN /\ tHashtags' = found
             /\ Observe("hashtag", found)
             /\ known_hashtags' = known
             /\ Enumerate([hashtag |-> Triggered(MustPopulate("hashtag", known_hashtags),
                                                 known, 1)])
             /\ ids_to_delete' = ids
             /\ IF ids = <<>> THEN Return ELSE Goto("prune_delete")
    /\ has' = has \cup {"hashtag"}
    /\ UNCHANGED <<args, tPending, tHosts, tHostgroups, tVariables, known_hosts,
                   known_hostgroups, known_variables, sessions, log, instance,
                   snow_hosts, objects, hosts_to_delete, hosts_to_create,
                   hostgroups, variables>>

\* opsview.py:2100-2107: one DELETE for each identifier
prune_delete ==
    /\ pc = "prune_delete"
    /\ \E ok \in BOOLEAN :
          /\ Issue("DELETE", "keyword", <<Head(ids_to_delete)>>, ok)
          /\ IF ok
             THEN /\ tHashtags' = { t \in tHashtags : t.id # Head(ids_to_delete) }
                  /\ tPending' = TRUE
                  /\ ids_to_delete' = Tail(ids_to_delete)
                  /\ IF Tail(ids_to_delete) = <<>> THEN Return ELSE Goto("prune_delete")
             ELSE Raise /\ UNCHANGED <<tHashtags, tPending, ids_to_delete>>
    /\ UNCHANGED <<args, tHosts, tHostgroups, tVariables, observed, unseen, cacheVars,
                   sessions, instance, snow_hosts, objects, hosts_to_delete,
                   hosts_to_create, hostgroups, variables>>

\* --------------------------------------------------------- purge_snow_hosts
\* opsview.py:2112-2125: the hosts of the instance
purge_snow_hosts ==
    /\ pc = "purge_snow_hosts"
    /\ \E found \in Found("host", tHosts, TargetHostInventories) :
          LET hosts == from_snow_instance(get_objects(found), instance)
          IN /\ tHosts' = found
             /\ Observe("host", found)
             /\ objects' = hosts
             /\ IF hosts # <<>> THEN Goto("purge_delete_hosts")
                                ELSE Goto("purge_confirm")
    /\ UNCHANGED <<args, tPending, tHashtags, tHostgroups, tVariables, cacheVars,
                   sessions, log, instance, snow_hosts, hosts_to_delete,
                   hosts_to_create, hostgroups, variables, ids_to_delete>>

\* opsview.py:2117 with HostList.delete
purge_delete_hosts ==
    /\ pc = "purge_delete_hosts"
    /\ \E ok \in BOOLEAN :
          /\ Issue("DELETE", "host", HostListDeleteIds(objects), ok)
          /\ IF ok THEN /\ DeleteHostsInTarget(Ids(objects))
                        /\ Goto("purge_confirm")
                   ELSE Raise /\ UNCHANGED <<tHosts, tHashtags, tPending>>
    /\ UNCHANGED <<args, tHostgroups, tVariables, observed, unseen, cacheVars, sessions,
                   localVars>>

\* Variant for C6: the purge asks even when forced.
PurgeAsks_Always(force) == TRUE

\* opsview.py:2127: whether purge_snow_hosts asks
PurgeAsks(force) == ~force

\* Variant for C7: the hostgroups are deleted before the hashtags are pruned.
PurgeSteps_HostgroupsFirst ==
    << "purge_snow_hostgroups", "prune_snow_hashtags",
       "purge_root_snow_hostgroup", "purge_snow_variables" >>

\* opsview.py:2136-2150: the steps after the confirmation, in program order
PurgeSteps ==
    << "prune_snow_hashtags", "purge_snow_hostgroups",
       "purge_root_snow_hostgroup", "purge_snow_variables" >>

\* Variant for C30: a declined prompt is logged and the purge goes on.
PurgeAborts_GoesOn ==
    /\ pc' = Head(PurgeSteps)
    /\ stack' = Tail(PurgeSteps) \o stack
    /\ UNCHANGED exit_code

\* opsview.py:2132-2134: the answer is not "y"
PurgeAborts == Return

\* opsview.py:2127-2134
purge_confirm ==
    /\ pc = "purge_confirm"
    /\ IF PurgeAsks(args.force)
       THEN \E answer \in Answers :
               /\ Issue("input", "purge", <<>>, Confirmed(answer))
               /\ IF Confirmed(answer)
                  THEN /\ pc' = Head(PurgeSteps)
                       /\ stack' = Tail(PurgeSteps) \o stack
                       /\ UNCHANGED exit_code
                  ELSE PurgeAborts
       ELSE /\ pc' = Head(PurgeSteps)
            /\ stack' = Tail(PurgeSteps) \o stack
            /\ UNCHANGED <<exit_code, log>>
    /\ UNCHANGED <<args, targetVars, cacheVars, sessions, localVars>>

\* Variant for C28: the prefix is compared without the comma that ends it.
HostgroupOfInstance_NoComma(hostgroup, inst) ==
    StartsWith(hostgroup.matpath, ServiceNowMatpath \o inst)

\* opsview.py:2043
HostgroupOfInstance(hostgroup, inst) ==
    StartsWith(hostgroup.matpath, ServiceNowMatpath \o inst \o <<",">>)

\* opsview.py:2036-2054
purge_snow_hostgroups ==
    /\ pc = "purge_snow_hostgroups"
    /\ \E found \in Found("hostgroup", tHostgroups, TargetHostgroupInventories) :
          LET known == IF MustPopulate("hostgroup", known_hostgroups)
                       THEN populate_known_entities(get_objects(found), "matpath")
                       ELSE known_hostgroups
              ids == IdsOf(SelectSeq(known, LAMBDA g : HostgroupOfInstance(g, instance)))
          IN /\ tHostgroups' = found
             /\ Observe("hostgroup", found)
             /\ known_hostgroups' = known
             /\ Enumerate([hostgroup |-> Triggered(MustPopulate("hostgroup", known_hostgroups),
                                                   known, 1)])
             /\ ids_to_delete' = ids
             /\ IF ids = <<>> THEN Return ELSE Goto("purge_hostgroups_delete")
    /\ has' = has \cup {"hostgroup"}
    /\ UNCHANGED <<args, tPending, tHosts, tHashtags, tVariables, known_hosts,
                   known_hashtags, known_variables, sessions, log, instance,
                   snow_hosts, objects, hosts_to_delete, hosts_to_create,
                   hostgroups, variables>>

\* opsview.py:2061-2068
purge_hostgroups_delete ==
    /\ pc = "purge_hostgroups_delete"
    /\ \E ok \in BOOLEAN :
          /\ Issue("DELETE", "hostgroup", <<Head(ids_to_delete)>>, ok)
          /\ IF ok
             THEN /\ tHostgroups' = { g \in tHostgroups : g.id # Head(ids_to_delete) }
                  /\ tPending' = TRUE
                  /\ ids_to_delete' = Tail(ids_to_delete)
                  /\ IF Tail(ids_to_delete) = <<>> THEN Return
                     ELSE Goto("purge_hostgroups_delete")
             ELSE Raise /\ UNCHANGED <<tHostgroups, tPending, ids_to_delete>>
    /\ UNCHANGED <<args, tHosts, tHashtags, tVariables, observed, unseen, cacheVars,
                   sessions, instance, snow_hosts, objects, hosts_to_delete,
                   hosts_to_create, hostgroups, variables>>

\* opsview.py:2000-2004
ServiceNowHostgroups(known) ==
    SelectSeq(known, LAMBDA g : StartsWith(g.matpath, ServiceNowMatpath))

\* opsview.py:2006-2019: whether the root group is deleted
DeletesRoot(service_now_hostgroups) ==
    /\ Len(service_now_hostgroups) = 1
    /\ service_now_hostgroups[1].name = <<"ServiceNow">>

\* Variant for C9: the decision is taken on the inventory already cached.
RootInventory_Cached(known, target) == known

\* purge_root_snow_hostgroup, opsview.py:1998: the inventory it decides on
RootInventory(known, target) ==
    populate_known_entities(get_objects(target), "matpath")

\* opsview.py:1993-2027
purge_root_snow_hostgroup ==
    /\ pc = "purge_root_snow_hostgroup"
    /\ \E found \in Found("hostgroup", tHostgroups, TargetHostgroupInventories) :
          LET known == RootInventory(known_hostgroups, found)
              service_now_hostgroups == ServiceNowHostgroups(known)
          IN /\ known_hostgroups' = known
             /\ UNCHANGED enumerated
             /\ Observe("hostgroup", found)
             /\ IF DeletesRoot(service_now_hostgroups)
                THEN \E ok \in BOOLEAN :
                        /\ Issue("DELETE", "hostgroup",
                                 <<service_now_hostgroups[1].id>>, ok)
                        /\ IF ok
                           THEN /\ tHostgroups' =
                                      { g \in found : g.id # service_now_hostgroups[1].id }
                                /\ tPending' = TRUE
                                /\ Return
                           ELSE Raise /\ tHostgroups' = found /\ UNCHANGED tPending
                ELSE /\ tHostgroups' = found
                     /\ Return
                     /\ UNCHANGED <<tPending, log>>
    /\ has' = has \cup {"hostgroup"}
    /\ UNCHANGED <<args, tHosts, tHashtags, tVariables, known_hosts, known_hashtags,
                   known_variables, sessions, localVars>>

\* opsview.py:2145-2149
HostCarriesProvenance(host) ==
    \E i \in 1..Len(host.hostattributes) :
        \/ host.hostattributes[i].name = SERVICENOW_INSTANCE
        \/ host.hostattributes[i].name = SERVICENOW_SYS_ID

\* opsview.py:2143: the host inventory the decision is taken on
VariableDecisionInventory(known, target) ==
    populate_known_entities(get_objects(target), "name")

PurgesVariables(known) == ~ \E i \in 1..Len(known) : HostCarriesProvenance(known[i])

\* Variant for C8: the settings variable is not spared.
VariableToPurge_AnyServiceNow(variable) == StartsWith(variable.name, <<"SERVICENOW_">>)

\* opsview.py:1967-1970
VariableToPurge(variable) ==
    /\ StartsWith(variable.name, <<"SERVICENOW_">>)
    /\ variable.name # SERVICENOW_SETTINGS

\* opsview.py:2143-2155 and purge_snow_variables up to its loop
purge_snow_variables ==
    /\ pc = "purge_snow_variables"
    /\ LET hosts == VariableDecisionInventory(known_hosts, tHosts)
       IN /\ known_hosts' = hosts
          /\ IF PurgesVariables(hosts)
             THEN \E found \in Found("variable", tVariables, TargetVariableInventories) :
                     LET known == IF MustPopulate("variable", known_variables)
                                  THEN populate_known_entities(get_objects(found), "name")
                                  ELSE known_variables
                         ids == IdsOf(SelectSeq(known, VariableToPurge))
                     IN /\ tVariables' = found
                        /\ known_variables' = known
                        /\ ids_to_delete' = ids
                        /\ Observe("variable", found)
                        /\ has' = has \cup {"host", "variable"}
                        /\ Enumerate([variable |->
                               Triggered(MustPopulate("variable", known_variables),
                                         known, 1)])
                        /\ IF ids = <<>> THEN Return
                           ELSE Goto("purge_variables_delete")
             ELSE /\ Return
                  /\ has' = has \cup {"host"}
                  /\ UNCHANGED <<tVariables, known_variables, ids_to_delete, observed,
                                 unseen, enumerated>>
    /\ UNCHANGED <<args, tPending, tHosts, tHashtags, tHostgroups, known_hashtags,
                   known_hostgroups, sessions, log, instance, snow_hosts, objects,
                   hosts_to_delete, hosts_to_create, hostgroups, variables>>

\* opsview.py:1983-1990
purge_variables_delete ==
    /\ pc = "purge_variables_delete"
    /\ \E ok \in BOOLEAN :
          /\ Issue("DELETE", "attribute", <<Head(ids_to_delete)>>, ok)
          /\ IF ok
             THEN /\ tVariables' = { v \in tVariables : v.id # Head(ids_to_delete) }
                  /\ tPending' = TRUE
                  /\ ids_to_delete' = Tail(ids_to_delete)
                  /\ IF Tail(ids_to_delete) = <<>> THEN Return
                     ELSE Goto("purge_variables_delete")
             ELSE Raise /\ UNCHANGED <<tVariables, tPending, ids_to_delete>>
    /\ UNCHANGED <<args, tHosts, tHashtags, tHostgroups, observed, unseen, cacheVars,
                   sessions, instance, snow_hosts, objects, hosts_to_delete,
                   hosts_to_create, hostgroups, variables>>

\* ------------------------------------------------------- ObjectList.create
\* str.split(","), on a string that ends with a comma
RECURSIVE Split(_)
Split(s) ==
    IF \A i \in 1..Len(s) : s[i] # ","
    THEN <<s>>
    ELSE LET k == CHOOSE i \in 1..Len(s) :
                      s[i] = "," /\ \A j \in 1..(i - 1) : s[j] # ","
         IN <<SubSeq(s, 1, k - 1)>> \o Split(SubSeq(s, k + 1, Len(s)))

\* "hostgroup not in self.objects": no class defines __eq__, so a hostgroup
\* that was just constructed is in no list.
Contains(list, obj) == FALSE

\* HostGroupList.add_hostgroups_from_matpaths, for one matpath
AddFromMatpath(list, matpath) ==
    LET parts == Split(matpath)
        hostgroup_names == SubSeq(parts, 1, Len(parts) - 1)
        parent(i) ==
            IF i = 1 THEN <<>>
            ELSE IF i = 2 THEN <<HostGroup(hostgroup_names[i - 1], <<>>)>>
            ELSE <<HostGroup(hostgroup_names[i - 1],
                             <<HostGroup(hostgroup_names[i - 2], <<>>)>>)>>
        F[i \in 0..Len(hostgroup_names)] ==
            IF i = 0 THEN list
            ELSE LET hostgroup == HostGroup(hostgroup_names[i], parent(i))
                 IN IF Contains(F[i - 1], hostgroup) THEN F[i - 1]
                    ELSE Append(F[i - 1], hostgroup)
    IN F[Len(hostgroup_names)]

RECURSIVE add_hostgroups_from_matpaths(_, _)
add_hostgroups_from_matpaths(list, matpaths) ==
    IF matpaths = <<>> THEN list
    ELSE add_hostgroups_from_matpaths(AddFromMatpath(list, Head(matpaths)),
                                      Tail(matpaths))

Depth(hostgroup) ==
    Cardinality({ i \in 1..Len(hostgroup.matpath) : hostgroup.matpath[i] = "," })

\* Variant for C17: the list is left as it is.
sort_by_depth_Unsorted(list) == list

\* HostGroupList.sort_by_depth: list.sort is stable
sort_by_depth(list) ==
    LET deepest == IF list = <<>> THEN 0
                   ELSE CHOOSE d \in { Depth(list[i]) : i \in 1..Len(list) } :
                            \A i \in 1..Len(list) : Depth(list[i]) <= d
        F[d \in 0..deepest] ==
            LET level == SelectSeq(list, LAMBDA g : Depth(g) = d)
            IN IF d = 0 THEN level ELSE F[d - 1] \o level
    IN F[deepest]

\* Variant for C21: the last object of each key is kept.
without_duplicates_KeepsLast(list, key) ==
    LET F[i \in 0..Len(list)] ==
            IF i = 0 THEN <<>>
            ELSE IF \E j \in (Len(list) - i + 2)..Len(list) :
                        list[j][key] = list[Len(list) - i + 1][key]
                 THEN F[i - 1]
                 ELSE <<list[Len(list) - i + 1]>> \o F[i - 1]
    IN F[Len(list)]

\* ObjectList.without_duplicates (by name) and HostGroupList.without_duplicates
\* (by matpath): the first object of each key, in order.
without_duplicates(list, key) ==
    LET F[i \in 0..Len(list)] ==
            IF i = 0 THEN <<>>
            ELSE IF \E j \in 1..(i - 1) : list[j][key] = list[i][key]
                 THEN F[i - 1]
                 ELSE Append(F[i - 1], list[i])
    IN F[Len(list)]

\* Variant for C13: nothing is filtered out.
without_existing_KeepsAll(list, knownKeys, key) == list

\* Variant for C14: no prerequisite hostgroup is derived from the hosts.
PrerequisiteHostgroups_None(hosts) == <<>>

\* ObjectList.create_objects, opsview.py:367-371: the hostgroups of the hosts
PrerequisiteHostgroups(hosts) == [i \in 1..Len(hosts) |-> hosts[i].hostgroup]

\* ObjectList.without_existing, with the exists methods: the objects whose
\* key is not in the session's inventory.
without_existing(list, knownKeys, key) ==
    SelectSeq(list, LAMBDA obj : obj[key] \notin knownKeys)

\* ObjectList.process for a HostGroupList (opsview.py:465-477): the ancestors
\* of the matpaths, iterated in some order, are added, the list is sorted by
\* depth, then duplicates and existing hostgroups are dropped.
process_hostgroups(list, order, knownMatpaths) ==
    without_existing(
        without_duplicates(sort_by_depth(add_hostgroups_from_matpaths(list, order)),
                           "matpath"),
        knownMatpaths, "matpath")

\* Variant for C19: the objects of self come first.
merge_single_SelfFirst(list, other) ==
    list \o SelectSeq(other, LAMBDA obj : obj.name \notin Names(list))

\* ObjectList.__merge_single: the objects of other, then the objects of self
\* whose name is not the name of an object of other.
merge_single(list, other) ==
    LET seen_names == Names(other)
    IN other \o SelectSeq(list, LAMBDA obj : obj.name \notin seen_names)

\* ObjectList.merge
RECURSIVE merge(_, _)
merge(list, others) ==
    IF others = <<>> THEN list
    ELSE merge(merge_single(list, Head(others)), Tail(others))

\* The orders in which a Python set of matpaths can be iterated.
Orders(S) ==
    { order \in [1..Cardinality(S) -> S] : \A x \in S : \E i \in DOMAIN order : order[i] = x }

NextId(inventory) ==
    IF inventory = {} THEN 1
    ELSE 1 + (CHOOSE m \in { x.id : x \in inventory } : \A y \in inventory : y.id <= m)

\* opsview.py:358-376, 459-494: HostList.process, then the hostgroups of the
\* remaining hosts and HostGroupList.process
create_hosts ==
    /\ pc = "create_hosts"
    /\ \E found \in Found("hostgroup", tHostgroups, TargetHostgroupInventories) :
          LET knownGroups == IF MustPopulate("hostgroup", known_hostgroups)
                             THEN populate_known_entities(get_objects(found), "matpath")
                             ELSE known_hostgroups
              knownHosts == IF MustPopulate("host", known_hosts)
                            THEN populate_known_entities(get_objects(tHosts), "name")
                            ELSE known_hosts
              hosts == without_existing(without_duplicates(hosts_to_create, "name"),
                                        Names(knownHosts), "name")
              wanted == PrerequisiteHostgroups(hosts)
              \* Host.exists for every host that without_duplicates leaves
              hostChecks == Triggered(MustPopulate("host", known_hosts), knownHosts,
                                      Len(without_duplicates(hosts_to_create, "name")))
              \* HostGroup.exists: lookup_ref for the hostgroup of every host,
              \* then lookup_ref and exists for the hostgroups of the list
              groupChecks(listed) ==
                  Triggered(MustPopulate("hostgroup", known_hostgroups), knownGroups,
                            Len(hosts_to_create) + listed)
          IN /\ tHostgroups' = found
             /\ Observe("hostgroup", found)
             /\ known_hostgroups' = knownGroups
             /\ known_hosts' = knownHosts
             /\ hosts_to_create' = hosts
             /\ IF hosts = <<>>
                THEN /\ Goto("prune_snow_hashtags") /\ hostgroups' = <<>>
                     /\ Enumerate([host |-> hostChecks, hostgroup |-> groupChecks(0)])
                ELSE \E order \in Orders(Matpaths(wanted)) :
                        LET all == add_hostgroups_from_matpaths(wanted, order)
                            left == process_hostgroups(wanted, order, Matpaths(knownGroups))
                        IN /\ hostgroups' = left
                           /\ Enumerate([host |-> hostChecks,
                                         hostgroup |->
                                             groupChecks(Len(all)
                                                 + Len(without_duplicates(all, "matpath")))])
                           /\ IF left = <<>> THEN Goto("create_variables")
                              ELSE Goto("create_hostgroups_post")
    /\ has' = has \cup {"hostgroup", "host"}
    /\ UNCHANGED <<args, tPending, tHosts, tHashtags, tVariables, known_hashtags,
                   known_variables, sessions, log, instance, snow_hosts, objects,
                   hosts_to_delete, variables, ids_to_delete>>

\* opsview.py:378-408 for the HostGroupList
create_hostgroups_post ==
    /\ pc = "create_hostgroups_post"
    /\ \E ok \in BOOLEAN :
          /\ Issue("POST", "hostgroup",
                   [i \in 1..Len(hostgroups) |-> hostgroups[i].matpath], ok)
          /\ IF ok
             THEN /\ tHostgroups' = tHostgroups \cup
                        { [id |-> NextId(tHostgroups) + i - 1,
                           name |-> hostgroups[i].name,
                           matpath |-> hostgroups[i].matpath] : i \in 1..Len(hostgroups) }
                  /\ tPending' = TRUE
                  /\ Goto("create_variables")
             ELSE Raise /\ UNCHANGED <<tHostgroups, tPending>>
    /\ UNCHANGED <<args, tHosts, tHashtags, tVariables, observed, unseen, cacheVars,
                   sessions, localVars>>

\* Variable.exists, opsview.py:1489-1493: hasattr asks for an attribute
\* ("known_variables_names") that populate never sets.
VariableMustPopulate(known) == TRUE

\* opsview.py:370-376, 459-494: the variables of the hosts and
\* VariableList.process
create_variables ==
    /\ pc = "create_variables"
    /\ LET attrs(i) == hosts_to_create[i].hostattributes
           F[i \in 0..Len(hosts_to_create)] ==
               IF i = 0 THEN <<>>
               ELSE F[i - 1] \o [j \in 1..Len(attrs(i)) |->
                                    [name |-> attrs(i)[j].name, value |-> <<>>]]
           wanted == without_duplicates(F[Len(hosts_to_create)], "name")
       IN IF wanted = <<>>
          THEN /\ variables' = <<>>
               /\ Goto("create_hosts_post")
               /\ UNCHANGED <<tVariables, known_variables, observed, unseen, has,
                              enumerated>>
          ELSE \E found \in Found("variable", tVariables, TargetVariableInventories) :
                  LET known == IF VariableMustPopulate(known_variables)
                               THEN populate_known_entities(get_objects(found), "name")
                               ELSE known_variables
                      left == without_existing(wanted, Names(known), "name")
                  IN /\ tVariables' = found
                     /\ known_variables' = known
                     /\ Observe("variable", found)
                     /\ has' = has \cup {"variable"}
                     /\ Enumerate([variable |->
                            Triggered(VariableMustPopulate(known_variables), known,
                                      Len(wanted))])
                     /\ variables' = left
                     /\ IF left = <<>> THEN Goto("create_hosts_post")
                        ELSE Goto("create_variables_post")
    /\ UNCHANGED <<args, tPending, tHosts, tHashtags, tHostgroups, known_hosts,
                   known_hashtags, known_hostgroups, sessions, log, instance,
                   snow_hosts, objects, hosts_to_delete, hosts_to_create,
                   hostgroups, ids_to_delete>>

\* opsview.py:378-408 for the VariableList
create_variables_post ==
    /\ pc = "create_variables_post"
    /\ \E ok \in BOOLEAN :
          /\ Issue("POST", "attribute",
                   [i \in 1..Len(variables) |-> variables[i].name], ok)
          /\ IF ok
             THEN /\ tVariables' = tVariables \cup
                        { [id |-> NextId(tVariables) + i - 1,
                           name |-> variables[i].name] : i \in 1..Len(variables) }
                  /\ tPending' = TRUE
                  /\ Goto("create_hosts_post")
             ELSE Raise /\ UNCHANGED <<tVariables, tPending>>
    /\ UNCHANGED <<args, tHosts, tHashtags, tHostgroups, observed, unseen, cacheVars,
                   sessions, localVars>>

\* opsview.py:378-408 for the HostList, then opsview.py:1690
create_hosts_post ==
    /\ pc = "create_hosts_post"
    /\ \E ok \in BOOLEAN :
          /\ Issue("POST", "host",
                   [i \in 1..Len(hosts_to_create) |-> hosts_to_create[i].name], ok)
          /\ IF ok
             THEN /\ tHosts' = tHosts \cup
                        { TargetHost(hosts_to_create[i].name,
                                     hosts_to_create[i].hostattributes)
                          : i \in 1..Len(hosts_to_create) }
                  /\ tPending' = TRUE
                  /\ Goto("prune_snow_hashtags")
             ELSE Raise /\ UNCHANGED <<tHosts, tPending>>
    /\ UNCHANGED <<args, tHashtags, tHostgroups, tVariables, observed, unseen, cacheVars,
                   sessions, localVars>>

\* ------------------------------------------------------------ specification
Next ==
    \/ handle_pending_changes
    \/ opsview_host_list
    \/ main_after_sync
    \/ apply_changes
    \/ main_close
    \/ sync_no_snow_hosts
    \/ sync_confirm
    \/ sync_diff
    \/ sync_delete
    \/ create_hosts
    \/ create_hostgroups_post
    \/ create_variables
    \/ create_variables_post
    \/ create_hosts_post
    \/ prune_snow_hashtags
    \/ prune_delete
    \/ purge_snow_hosts
    \/ purge_delete_hosts
    \/ purge_confirm
    \/ purge_snow_hostgroups
    \/ purge_hostgroups_delete
    \/ purge_root_snow_hostgroup
    \/ purge_snow_variables
    \/ purge_variables_delete

Spec == Init /\ [][Next]_vars

\* ----------------------------------------------- the collection methods
\* The methods of HostGroup and of the object lists, called on their own:
\* args is the call (the method, the collection it is called on and its
\* arguments), objects is self.objects when the call has returned.
PathNames == << <<"Opsview">>, <<"A">>, <<"B">>, <<"C">>, <<"D">>, <<"E">>, <<"F">> >>

RECURSIVE PathOf(_)
PathOf(d) == IF d = 0 THEN <<>> ELSE PathOf(d - 1) \o PathNames[d] \o <<",">>

ArgMatpaths == { PathOf(d) : d \in 1..MaxMatpathDepth }

\* Hostgroups as the constructor builds them; two of them are named B.
GroupA == HostGroup(<<"A">>, <<>>)
GroupB == HostGroup(<<"B">>, <<>>)
GroupAB == HostGroup(<<"B">>, <<GroupA>>)
GroupBA == HostGroup(<<"A">>, <<GroupB>>)
GroupABC == HostGroup(<<"C">>, <<GroupAB>>)
ArgHostgroups ==
    { HostGroup(<<"Opsview">>, <<>>), GroupA, GroupB, GroupAB, GroupBA, GroupABC }

\* Hosts; two of them are named h1.
ArgHosts == { SnowHost("h1", InstanceX), SnowHost("h1", InstanceY), SnowHost("h2", InstanceX) }

ArgNames == { <<"Opsview">>, <<"A">>, <<"B">> }
ArgParents == { <<>> } \cup { <<g>> : g \in ArgHostgroups }
ArgInventories == { {}, {PathOf(1)}, {PathOf(1), PathOf(2)} }

\* Percentages are counted in hundredths: 66.67 is 6667.
Abs(x) == IF x < 0 THEN -x ELSE x

\* opsview.py:622-626, "abs(quorum_pct - ratio_pct) < 0.01" for the ratio
\* n / number_of_hosts, in hundredths and multiplied by number_of_hosts.  The
\* program computes in IEEE-754 doubles: where the distance is exactly 0.01
\* the doubles decide, and for the percentages listed the computed distance
\* is just below the double 0.01 (39.99, 40.01, 49.99, 50.01, 59.99, 60.01),
\* for all others just above.
WithinTolerance(quorum_pct, n, number_of_hosts) ==
    LET distance == Abs(quorum_pct * number_of_hosts - 10000 * n)
    IN \/ distance < number_of_hosts
       \/ /\ distance = number_of_hosts
          /\ quorum_pct \in {3999, 4001, 4999, 5001, 5999, 6001}

\* opsview.py:616-629
valid_quorum_pct(quorum_pct, number_of_hosts) ==
    IF quorum_pct < 0 \/ quorum_pct > 10000 THEN FALSE
    ELSE \E n \in 0..number_of_hosts : WithinTolerance(quorum_pct, n, number_of_hosts)

QuorumPcts == (0 - 1)..10001

\* Attribute values, as far as as_json tells them apart: None, the empty
\* string, the empty list, the flags "0" and "1", a text, a list with elements.
Falsy == { "None", "''", "[]" }

AsJsonObjects ==
    [ type : {"Hashtag"}, name : {"'foo'"}, id : {"None", "'7'"}, enabled : {"'0'", "'1'"},
      hosts : {"[]", "[h]"}, description : {"''", "'text'"} ]
    \cup
    [ type : {"Variable"}, name : {"'foo'"}, value : {"''", "'0'", "'text'"} ]
    \cup
    [ type : {"Host"}, name : {"'foo'"}, id : {"None", "'7'"}, ip : {"'text'"},
      keywords : {"[]", "[k]"}, hostattributes : {"[]", "[a]"} ]
    \cup
    [ type : {"HostGroup"}, name : {"'foo'"}, matpath : {"'Opsview,foo,'"},
      id : {"None", "'7'"}, hosts : {"[]", "[h]"}, uncommitted : {"'0'", "'1'"} ]

\* as_json: the fields of the payload.  Object.as_json (opsview.py:251-268)
\* drops, when shallow, every attribute that is falsy or "0"; HostGroup.as_json
\* (1053-1095) drops such attributes among its optional keys; Host.as_json
\* (950-968) and Variable.as_json (1482-1486) do not look at shallow.
as_json(obj, shallow) ==
    LET attributes == DOMAIN obj \ {"type"}
        kept(keys) == { key \in keys : ~(obj[key] \in Falsy \/ obj[key] = "'0'") }
        emitted == IF obj.type \in {"Host", "Variable"} THEN attributes
                   ELSE IF ~shallow THEN attributes
                   ELSE IF obj.type = "HostGroup"
                        THEN kept(attributes \ {"matpath"}) \cup {"matpath"}
                   ELSE kept(attributes)
    IN [key \in emitted |-> obj[key]]

\* The entity classes, and those whose __init__ starts with
\* "if not name: raise ValueError" (Host.__init__, opsview.py:929, does not).
EntityClasses ==
    { "Host", "HostGroup", "Hashtag", "Variable", "HostTemplate", "HostCheckCommand",
      "Plugin", "ServiceCheck", "ServiceGroup", "TimePeriod", "BSMComponent",
      "BSMService" }

ChecksName ==
    { "HostGroup", "Hashtag", "Variable", "HostTemplate", "HostCheckCommand",
      "Plugin", "ServiceCheck", "ServiceGroup", "TimePeriod", "BSMComponent",
      "BSMService" }

\* a name that is empty, and names that are not
InitNames == { <<>>, <<"A">>, <<"B">>, <<"A", "B">>, <<"Opsview">> }

Calls ==
    { [op |-> "HostGroup", name |-> n, parent |-> q] : n \in ArgNames, q \in ArgParents }
    \cup
    { [op |-> "add_hostgroups_from_matpaths", self |-> l, matpaths |-> <<m>>]
      : l \in SeqsUpTo(ArgHostgroups, MaxListLen), m \in ArgMatpaths }
    \cup
    { [op |-> "sort_by_depth", self |-> l] : l \in SeqsUpTo(ArgHostgroups, MaxListLen) }
    \cup
    { [op |-> "process", self |-> l, known |-> k]
      : l \in SeqsUpTo(ArgHostgroups, MaxListLen), k \in ArgInventories }
    \cup
    { [op |-> "valid_quorum_pct", quorum_pct |-> q, number_of_hosts |-> h]
      : q \in QuorumPcts, h \in 1..MaxQuorumHosts }
    \cup
    { [op |-> "as_json", self |-> obj, shallow |-> b] : obj \in AsJsonObjects, b \in BOOLEAN }
    \cup
    { [op |-> "__init__", type |-> t, name |-> n] : t \in EntityClasses, n \in InitNames }
    \cup
    { [op |-> "without_duplicates", type |-> "HostList", self |-> l]
      : l \in SeqsUpTo(ArgHosts, MaxListLen) }
    \cup
    { [op |-> "without_duplicates", type |-> "HostGroupList", self |-> l]
      : l \in SeqsUpTo(ArgHostgroups, MaxListLen) }
    \cup
    { [op |-> "merge", type |-> "HostList", self |-> l, other |-> o]
      : l \in SeqsUpTo(ArgHosts, MaxListLen), o \in SeqsUpTo(ArgHosts, MaxListLen) }
    \cup
    { [op |-> "merge", type |-> "HostGroupList", self |-> l, other |-> o]
      : l \in SeqsUpTo({GroupA, GroupB, GroupAB}, MaxListLen),
        o \in SeqsUpTo({GroupA, GroupB, GroupAB}, MaxListLen) }

InitLists ==
    /\ args \in Calls
    /\ pc = "call" /\ stack = <<>>
    /\ objects = <<>>
    /\ tPending = FALSE
    /\ tHosts = {} /\ tHashtags = {} /\ tHostgroups = {} /\ tVariables = {}
    /\ observed = {} /\ unseen = 0
    /\ has = {}
    /\ enumerated = [type \in EntityTypes |-> 0]
    /\ known_hosts = <<>> /\ known_hashtags = <<>>
    /\ known_hostgroups = <<>> /\ known_variables = <<>>
    /\ sessions = {}
    /\ instance = <<>> /\ snow_hosts = <<>>
    /\ hosts_to_delete = <<>> /\ hosts_to_create = <<>>
    /\ hostgroups = <<>> /\ variables = <<>>
    /\ ids_to_delete = <<>>
    /\ log = <<>>
    /\ exit_code = -1

Returns(op, result) ==
    /\ pc = "call" /\ args.op = op
    /\ objects' = result
    /\ pc' = "returned"
    /\ UNCHANGED <<args, targetVars, cacheVars, sessions, stack, instance, snow_hosts,
                   hosts_to_delete, hosts_to_create, hostgroups, variables,
                   ids_to_delete, log, exit_code>>

call_HostGroup ==
    /\ args.op = "HostGroup"
    /\ Returns("HostGroup", <<HostGroup(args.name, args.parent)>>)

call_add_hostgroups_from_matpaths ==
    /\ args.op = "add_hostgroups_from_matpaths"
    /\ Returns("add_hostgroups_from_matpaths",
               add_hostgroups_from_matpaths(args.self, args.matpaths))

call_sort_by_depth ==
    /\ args.op = "sort_by_depth"
    /\ Returns("sort_by_depth", sort_by_depth(args.self))

call_process ==
    /\ args.op = "process"
    /\ \E order \in Orders(Matpaths(args.self)) :
          Returns("process", process_hostgroups(args.self, order, args.known))

call_merge ==
    /\ args.op = "merge"
    /\ Returns("merge", merge(args.self, <<args.other>>))

\* the key by which a collection type tells its objects apart
KeyOf(type) == IF type = "HostGroupList" THEN "matpath" ELSE "name"

call_without_duplicates ==
    /\ args.op = "without_duplicates"
    /\ Returns("without_duplicates", without_duplicates(args.self, KeyOf(args.type)))

\* __init__ of an entity class, as far as the name goes
call_init ==
    /\ pc = "call" /\ args.op = "__init__"
    /\ IF args.name = <<>> /\ args.type \in ChecksName
       THEN Raise /\ UNCHANGED objects
       ELSE /\ objects' = <<[type |-> args.type, name |-> args.name]>>
            /\ pc' = "returned"
            /\ UNCHANGED <<stack, exit_code>>
    /\ UNCHANGED <<args, targetVars, cacheVars, sessions, instance, snow_hosts,
                   hosts_to_delete, hosts_to_create, hostgroups, variables,
                   ids_to_delete, log>>

call_valid_quorum_pct ==
    /\ args.op = "valid_quorum_pct"
    /\ Returns("valid_quorum_pct",
               <<valid_quorum_pct(args.quorum_pct, args.number_of_hosts)>>)

call_as_json ==
    /\ args.op = "as_json"
    /\ Returns("as_json", <<as_json(args.self, args.shallow)>>)

NextLists ==
    \/ call_HostGroup
    \/ call_add_hostgroups_from_matpaths
    \/ call_sort_by_depth
    \/ call_process
    \/ call_merge
    \/ call_without_duplicates
    \/ call_init
    \/ call_valid_quorum_pct
    \/ call_as_json

SpecLists == InitLists /\ [][NextLists]_vars

\* ------------------------------------------------------- repeated sync passes
\* Non-dry-run sync runs for instance X, one after the other, with the same
\* desired hosts; every request succeeds and the target reflects it.  Each
\* run is main.py:108-115 with HostList.sync_from_snow_instance on a fresh
\* session; log holds a "pass" entry for each run, followed by its host
\* request if it sent one.
Passes == Cardinality({ i \in 1..Len(log) : log[i].kind = "pass" })

InitPasses ==
    /\ args = [dry_run |-> FALSE, force |-> TRUE, purge_snow_instance |-> NoInstance]
    /\ tHosts \in TargetHostInventories
    /\ snow_hosts \in SnowHostLists \ { <<>> }
    /\ instance = InstanceX
    /\ pc = "sync_from_snow_instance" /\ stack = <<>>
    /\ objects = <<>>
    /\ tPending = FALSE
    /\ tHashtags = {} /\ tHostgroups = {} /\ tVariables = {}
    /\ observed = {"host"} /\ unseen = 0
    /\ has = {}
    /\ enumerated = [type \in EntityTypes |-> 0]
    /\ known_hosts = <<>> /\ known_hashtags = <<>>
    /\ known_hostgroups = <<>> /\ known_variables = <<>>
    /\ sessions = {}
    /\ hosts_to_delete = <<>> /\ hosts_to_create = <<>>
    /\ hostgroups = <<>> /\ variables = <<>>
    /\ ids_to_delete = <<>>
    /\ log = <<>>
    /\ exit_code = -1

\* What one run computes: the inventory of main.py:108, the diff and the
\* branch of sync_from_snow_instance, and the hosts that HostList.process
\* leaves for the create request.
PassPlan ==
    LET known == populate_known_entities(get_objects(tHosts), "name")
        self_objects == from_snow_instance(get_objects(tHosts), instance)
        toDelete == HostsToDelete(self_objects, snow_hosts)
        toCreate == HostsToCreate(self_objects, snow_hosts)
    IN [known |-> known, self |-> self_objects, toDelete |-> toDelete,
        toCreate |-> toCreate, branch |-> SyncBranch(toDelete, toCreate),
        left |-> without_existing(without_duplicates(toCreate, "name"),
                                  Names(known), "name")]

PassRuns(branch, requests) ==
    /\ pc = "sync_from_snow_instance"
    /\ Passes < MaxPasses
    /\ PassPlan.branch = branch
    /\ log' = log \o <<Event("pass", branch, <<>>, TRUE)>> \o requests
    /\ known_hosts' = PassPlan.known
    /\ objects' = PassPlan.self
    /\ hosts_to_delete' = PassPlan.toDelete
    /\ hosts_to_create' = IF branch = "create" THEN PassPlan.left ELSE PassPlan.toCreate
    /\ UNCHANGED <<args, tPending, tHashtags, tHostgroups, tVariables, observed, unseen,
                   has, enumerated, known_hashtags, known_hostgroups, known_variables,
                   sessions, pc, stack, instance, snow_hosts, hostgroups, variables,
                   ids_to_delete, exit_code>>

\* opsview.py:1676-1682 with HostList.delete
pass_delete ==
    /\ PassRuns("delete", <<Event("DELETE", "host",
                                  HostListDeleteIds(PassPlan.toDelete), TRUE)>>)
    /\ tHosts' = { h \in tHosts : h.id \notin Ids(PassPlan.toDelete) }

\* opsview.py:1683-1688 with ObjectList.create_objects
pass_create ==
    /\ PassRuns("create",
                IF PassPlan.left = <<>> THEN <<>>
                ELSE <<Event("POST", "host",
                             [i \in 1..Len(PassPlan.left) |-> PassPlan.left[i].name],
                             TRUE)>>)
    /\ tHosts' = tHosts \cup
          { TargetHost(PassPlan.left[i].name, PassPlan.left[i].hostattributes)
            : i \in 1..Len(PassPlan.left) }

\* opsview.py:1674-1675: nothing to delete and nothing to create
pass_none ==
    /\ PassRuns("none", <<>>)
    /\ UNCHANGED tHosts

NextPasses ==
    \/ pass_delete
    \/ pass_create
    \/ pass_none

SpecPasses == InitPasses /\ [][NextPasses]_vars

\* ------------------------------------------------------------ verification
SyncRun == args.purge_snow_instance = NoInstance
PurgeRun == args.purge_snow_instance # NoInstance

Is(e, kind, type) == e.kind = kind /\ e.type = type
Issued(kind, type) == \E i \in 1..Len(log) : Is(log[i], kind, type)
Mutates(e) == e.kind \in {"DELETE", "POST"}

\* the target's hosts that carry SERVICENOW_INSTANCE = inst
Tagged(inst) ==
    { h \in tHosts : \E i \in 1..Len(h.hostattributes) :
          h.hostattributes[i] = [name |-> SERVICENOW_INSTANCE, value |-> inst] }

\* C1: in a sync run with dry-run set, no DELETE and no POST request is
\* issued to the target, whatever the desired and the actual hosts are.
C1_DryRunIssuesNoMutation ==
    (SyncRun /\ args.dry_run) => \A i \in 1..Len(log) : ~Mutates(log[i])

\* C2: when the target reports pending changes and force is not set, the run
\* ends at the check with exit code 1 and nothing issued; with force set it
\* goes on to the purge or to the sync.  Nothing is issued before the check
\* and nothing happens after the exit.
C2_PendingAbortsBeforeMutation ==
    [][ /\ pc = "handle_pending_changes" =>
            /\ log = <<>>
            /\ (tPending /\ ~args.force) =>
                   (pc' = "exit" /\ exit_code' = 1 /\ log' = <<>>)
            /\ (tPending /\ args.force) =>
                   pc' \in {"purge_snow_hosts", "opsview_host_list"}
        /\ pc = "exit" => FALSE ]_vars

C2_Witness ==
    pc = "exit" /\ exit_code = 1 /\ tPending /\ ~args.force /\ log = <<>>

\* C3: in the purge workflow without force, a host DELETE is issued only
\* after the operator has answered 'y' to a prompt.
InPurgeWorkflow ==
    \/ PurgeRun
    \/ SyncRun /\ snow_hosts = <<>>

C3_HostDeleteOnlyAfterYes ==
    (InPurgeWorkflow /\ ~args.force) =>
        \A i \in 1..Len(log) :
            Is(log[i], "DELETE", "host") =>
                \E j \in 1..(i - 1) : log[j].kind = "input" /\ log[j].ok

\* C4: for a non-empty desired set, right after the diff, hosts_to_delete
\* holds exactly the target hosts tagged with the instance whose name no
\* desired host has (each once), and hosts_to_create is the desired list
\* without the hosts whose name a tagged target host has.  The diff is read
\* where a branch is about to start, and under dry-run where pruning is.
DiffIsFresh ==
    /\ snow_hosts # <<>>
    /\ log = <<>>
    /\ \/ pc \in {"sync_delete", "create_hosts"}
       \/ pc = "prune_snow_hashtags" /\ args.dry_run

C4_DiffIsSetDifference ==
    DiffIsFresh =>
        LET desiredNames == { snow_hosts[i].name : i \in 1..Len(snow_hosts) }
            actualNames == { h.name : h \in Tagged(instance) }
        IN /\ { hosts_to_delete[i].id : i \in 1..Len(hosts_to_delete) }
                  = { h.id : h \in { x \in Tagged(instance) : x.name \notin desiredNames } }
           /\ Len(hosts_to_delete)
                  = Cardinality({ x \in Tagged(instance) : x.name \notin desiredNames })
           /\ hosts_to_create
                  = SelectSeq(snow_hosts, LAMBDA d : d.name \notin actualNames)

C4_Witness ==
    DiffIsFresh /\ hosts_to_delete # <<>> /\ hosts_to_create # <<>>
    /\ \E h \in tHosts : h \notin Tagged(instance)

\* C5: in a sync pass without dry-run whose diff leaves hosts to delete and
\* hosts to create, the host DELETE is issued (it is the first request once
\* the delete step has run) and no host, hostgroup or variable is created.
BothSides ==
    /\ SyncRun /\ ~args.dry_run /\ snow_hosts # <<>>
    /\ hosts_to_delete # <<>> /\ hosts_to_create # <<>>

C5_DeleteWinsOverCreate ==
    BothSides =>
        /\ \A i \in 1..Len(log) : log[i].kind # "POST" \/ log[i].type = "reload"
        /\ pc # "sync_delete" =>
               /\ Len(log) >= 1
               /\ Is(log[1], "DELETE", "host")
               /\ log[1].keys = [i \in 1..Len(hosts_to_delete) |-> hosts_to_delete[i].id]

C5_Witness ==
    BothSides /\ pc = "main_apply_changes" /\ Is(log[1], "DELETE", "host") /\ log[1].ok

\* C6: in a sync pass with an empty desired set, dry-run off and force set,
\* no prompt is ever issued, every host DELETE precedes every hashtag DELETE,
\* no host tagged with the instance is left once pruning starts, and a pass
\* that returns has emptied the instance and has run the pruning.
ForcedEmptySync ==
    /\ SyncRun /\ snow_hosts = <<>> /\ ~args.dry_run /\ args.force
    /\ pc \notin {"handle_pending_changes", "opsview_host_list", "sync_from_snow_instance"}

C6_ForcedEmptySyncDeletesThenPrunes ==
    ForcedEmptySync =>
        /\ \A i \in 1..Len(log) : log[i].kind # "input"
        /\ \A i, j \in 1..Len(log) :
               (Is(log[i], "DELETE", "host") /\ Is(log[j], "DELETE", "keyword")) => i < j
        /\ (pc \in {"prune_snow_hashtags", "prune_delete"} \/ Issued("DELETE", "keyword"))
               => Tagged(instance) = {}
        /\ pc = "main_after_sync" => (Tagged(instance) = {} /\ "hashtag" \in has)

C6_Witness ==
    /\ ForcedEmptySync /\ pc = "main_after_sync"
    /\ Issued("DELETE", "host") /\ Issued("DELETE", "keyword")
    /\ \E h \in tHosts : h \notin Tagged(instance)

\* C7: in the purge workflow the steps follow one another in the order
\* hosts, hashtags, instance hostgroups, root group, variables: control moves
\* from a step only to itself or to the next one, the purge is entered at
\* the first step and left (other than by a failure) only from the last one
\* or by a declined prompt, and every request belongs to the running step.
PurgePhase(p) ==
    CASE p \in {"purge_snow_hosts", "purge_delete_hosts", "purge_confirm"} -> 1
      [] p \in {"prune_snow_hashtags", "prune_delete"} -> 2
      [] p \in {"purge_snow_hostgroups", "purge_hostgroups_delete"} -> 3
      [] p = "purge_root_snow_hostgroup" -> 4
      [] p \in {"purge_snow_variables", "purge_variables_delete"} -> 5
      [] OTHER -> 0

IsRootGroupId(keys) ==
    \E g \in HostgroupUniverse : g.matpath = ServiceNowMatpath /\ keys = <<g.id>>

RequestOfPhase(e, phase) ==
    CASE phase = 1 -> Is(e, "DELETE", "host") \/ Is(e, "input", "purge")
      [] phase = 2 -> Is(e, "DELETE", "keyword")
      [] phase = 3 -> Is(e, "DELETE", "hostgroup") /\ ~IsRootGroupId(e.keys)
      [] phase = 4 -> Is(e, "DELETE", "hostgroup") /\ IsRootGroupId(e.keys)
      [] phase = 5 -> Is(e, "DELETE", "attribute")
      [] OTHER -> FALSE

C7_PurgeStepsInOrder ==
    [][ (InPurgeWorkflow /\ (PurgePhase(pc) > 0 \/ PurgePhase(pc') > 0)) =>
          /\ PurgePhase(pc) = 0 => PurgePhase(pc') = 1
          /\ (PurgePhase(pc) > 0 /\ PurgePhase(pc') > 0) =>
                 PurgePhase(pc') \in {PurgePhase(pc), PurgePhase(pc) + 1}
          /\ (PurgePhase(pc) > 0 /\ PurgePhase(pc') = 0 /\ pc' # "raised") =>
                 \/ PurgePhase(pc) = 5
                 \/ /\ pc = "purge_confirm" /\ Len(log') = Len(log) + 1
                    /\ Is(log'[Len(log')], "input", "purge") /\ ~log'[Len(log')].ok
          /\ (PurgePhase(pc) > 0 /\ log' # log) =>
                 /\ Len(log') = Len(log) + 1
                 /\ SubSeq(log', 1, Len(log)) = log
                 /\ RequestOfPhase(log'[Len(log')], PurgePhase(pc)) ]_vars

C7_Witness ==
    /\ PurgeRun /\ pc = "main_apply_changes" /\ Len(log) >= 4
    /\ \E i, j, k, l \in 1..Len(log) :
          /\ i < j /\ j < k /\ k < l
          /\ Is(log[i], "DELETE", "host") /\ Is(log[j], "DELETE", "keyword")
          /\ Is(log[k], "DELETE", "hostgroup") /\ ~IsRootGroupId(log[k].keys)
          /\ Is(log[l], "DELETE", "hostgroup") /\ IsRootGroupId(log[l].keys)
    /\ "variable" \in observed

\* C8: a variable DELETE is issued only while no host of the target carries
\* SERVICENOW_INSTANCE or SERVICENOW_SYS_ID; every variable deleted has a
\* name that starts with SERVICENOW_ and is not SERVICENOW_SETTINGS; and a
\* purge that ran through with no such host left has deleted every such
\* variable of the target.
PurgeRanThrough ==
    /\ InPurgeWorkflow /\ ~args.dry_run
    /\ pc \in {"main_after_sync", "main_apply_changes"}
    /\ args.force \/ \E i \in 1..Len(log) : Is(log[i], "input", "purge") /\ log[i].ok

NoProvenanceLeft ==
    \A h \in tHosts : \A i \in 1..Len(h.hostattributes) :
        h.hostattributes[i].name \notin {SERVICENOW_INSTANCE, SERVICENOW_SYS_ID}

IsSnowVariableName(name) ==
    /\ Len(name) >= 1 /\ name[1] = "SERVICENOW_"
    /\ name # <<"SERVICENOW_", "SETTINGS">>

C8_VariablesPurgedOnlyWhenNoProvenance ==
    /\ (pc = "purge_variables_delete" \/ Issued("DELETE", "attribute")) => NoProvenanceLeft
    /\ \A i \in 1..Len(log) :
           Is(log[i], "DELETE", "attribute") =>
               \E v \in VariableUniverse :
                   log[i].keys = <<v.id>> /\ IsSnowVariableName(v.name)
    /\ (PurgeRanThrough /\ NoProvenanceLeft) =>
           /\ "variable" \in observed
           /\ \A v \in tVariables : ~IsSnowVariableName(v.name)

C8_Witness ==
    /\ PurgeRanThrough /\ Issued("DELETE", "attribute") /\ Issued("DELETE", "host")
    /\ \E v \in tVariables : v.name = SERVICENOW_SETTINGS

\* C9: the ServiceNow root group is deleted only when no other hostgroup
\* under Opsview,ServiceNow, is left in the target; once the decision is
\* taken, a root group still there has such a hostgroup beside it; and every
\* hostgroup deleted is the root group or a group of the instance.
IsSnowRooted(g) == StartsWith(g.matpath, <<"Opsview", ",", "ServiceNow", ",">>)
IsRootGroup(g) == g.matpath = <<"Opsview", ",", "ServiceNow", ",">>

C9_RootDeletedOnlyWhenSole ==
    /\ (\E i \in 1..Len(log) : Is(log[i], "DELETE", "hostgroup") /\ IsRootGroupId(log[i].keys))
           => \A g \in tHostgroups : IsSnowRooted(g) => IsRootGroup(g)
    /\ pc \in {"purge_snow_variables", "purge_variables_delete"} =>
           ((\E g \in tHostgroups : IsRootGroup(g)) =>
                (\E g \in tHostgroups : IsSnowRooted(g) /\ ~IsRootGroup(g)))
    /\ \A i \in 1..Len(log) :
           Is(log[i], "DELETE", "hostgroup") =>
               \E g \in HostgroupUniverse :
                   /\ log[i].keys = <<g.id>>
                   /\ IsRootGroup(g) \/ StartsWith(g.matpath, InstanceMatpath(instance))

C9_Witness ==
    /\ pc = "purge_snow_variables"
    /\ \E i, j \in 1..Len(log) :
          /\ i < j
          /\ Is(log[i], "DELETE", "hostgroup") /\ ~IsRootGroupId(log[i].keys)
          /\ Is(log[j], "DELETE", "hostgroup") /\ IsRootGroupId(log[j].keys) /\ log[j].ok

\* C10: every hashtag deleted is one of the hashtag inventory that was
\* created by the sync tool and has neither hosts nor servicechecks; a sync
\* pass without dry-run that returns from its delete or its create branch
\* has fetched the inventory and deleted every such hashtag of it; and the
\* hashtag DELETEs follow the branch's requests.
IsOrphanSyncHashtag(t) ==
    /\ Len(t.description) >= 1 /\ t.description[1] = "Created by Opsview CMDB Sync"
    /\ t.hosts = {} /\ t.servicechecks = {}

BranchReturned ==
    /\ SyncRun /\ ~args.dry_run /\ snow_hosts # <<>> /\ pc = "main_after_sync"
    /\ Issued("DELETE", "host") \/ Issued("POST", "host")

C11_SessionsClosedAtExit ==
    pc \in {"exit", "raised"} => sessions = {}

\* C12: the reload POST is issued only by apply_changes and only when the
\* target reports pending changes, at most once, and no request follows it;
\* when nothing is pending apply_changes issues nothing.
IsReload(e) == Is(e, "POST", "reload")

C12_ReloadOnceAfterAllChanges ==
    [][ /\ (log' # log /\ IsReload(log'[Len(log')])) =>
               /\ pc = "main_apply_changes" /\ tPending
               /\ \A i \in 1..Len(log) : ~IsReload(log[i])
        /\ (\E i \in 1..Len(log) : IsReload(log[i])) => log' = log
        /\ (pc = "main_apply_changes" /\ ~tPending) => log' = log
        /\ (pc = "main_apply_changes" /\ tPending) =>
               (Len(log') = Len(log) + 1 /\ IsReload(log'[Len(log')])) ]_vars

C12_Witness ==
    /\ pc = "main_close" /\ Len(log) >= 3
    /\ IsReload(log[Len(log)]) /\ log[Len(log)].ok
    /\ \E i, j \in 1..Len(log) : log[i].kind = "POST" /\ log[j].kind = "DELETE"

\* C13: every create request carries at least one object and none whose key
\* (host name, hostgroup matpath, variable name) is in the session's
\* inventory; and a collection that process leaves empty is not submitted:
\* no host left means no create request of any type.
PostedKeys(type) ==
    UNION { Range(log[i].keys) : i \in { k \in 1..Len(log) : Is(log[k], "POST", type) } }

IsCreate(e) == e.kind = "POST" /\ e.type \in {"host", "hostgroup", "attribute"}

C13_CreateSkipsExisting ==
    /\ \A i \in 1..Len(log) : IsCreate(log[i]) => log[i].keys # <<>>
    /\ PostedKeys("host") \cap { known_hosts[i].name : i \in 1..Len(known_hosts) } = {}
    /\ PostedKeys("hostgroup")
           \cap { known_hostgroups[i].matpath : i \in 1..Len(known_hostgroups) } = {}
    /\ PostedKeys("attribute")
           \cap { known_variables[i].name : i \in 1..Len(known_variables) } = {}
    /\ hosts_to_create = <<>> => \A i \in 1..Len(log) : ~IsCreate(log[i])
    /\ hostgroups = <<>> => PostedKeys("hostgroup") = {}
    /\ variables = <<>> => PostedKeys("attribute") = {}

C13_Witness ==
    /\ Issued("POST", "host") /\ pc = "main_after_sync"
    /\ \E i \in 1..Len(snow_hosts) : \E j \in 1..Len(known_hosts) :
          snow_hosts[i].name = known_hosts[j].name
    /\ PostedKeys("hostgroup") # {} /\ Len(known_hostgroups) > 1
    /\ hostgroups # <<>>

\* C14: the hosts are submitted in one create request; the create requests
\* for hostgroups and for variables come before it, hostgroups first, and
\* succeeded; and when the hosts are submitted, the hostgroup of every host
\* and every variable of every host is in the inventory or was submitted.
C14_PrerequisitesBeforeHosts ==
    \A i \in 1..Len(log) :
        Is(log[i], "POST", "host") =>
            /\ \A j \in 1..Len(log) : Is(log[j], "POST", "host") => j = i
            /\ \A j \in 1..Len(log) :
                   (Is(log[j], "POST", "hostgroup") \/ Is(log[j], "POST", "attribute"))
                       => (j < i /\ log[j].ok)
            /\ \A j, k \in 1..Len(log) :
                   (Is(log[j], "POST", "hostgroup") /\ Is(log[k], "POST", "attribute"))
                       => j < k
            /\ log[i].keys = [h \in 1..Len(hosts_to_create) |-> hosts_to_create[h].name]
            /\ \A h \in 1..Len(hosts_to_create) :
                   /\ hosts_to_create[h].hostgroup.matpath \in
                          PostedKeys("hostgroup")
                          \cup { known_hostgroups[g].matpath : g \in 1..Len(known_hostgroups) }
                   /\ \A a \in 1..Len(hosts_to_create[h].hostattributes) :
                          hosts_to_create[h].hostattributes[a].name \in
                              PostedKeys("attribute")
                              \cup { known_variables[v].name : v \in 1..Len(known_variables) }

C14_Witness ==
    /\ Len(log) >= 3
    /\ Is(log[1], "POST", "hostgroup") /\ Is(log[2], "POST", "attribute")
    /\ Is(log[3], "POST", "host") /\ log[3].ok
    /\ Len(hosts_to_create) = 2

\* ------------------------------------------ claims on the collection methods
Returned(op) == pc = "returned" /\ args.op = op

Commas(s) == { i \in 1..Len(s) : s[i] = "," }

\* the comma-terminated prefixes of a matpath, and the next-shorter one
PrefixesOf(p) == { SubSeq(p, 1, k) : k \in Commas(p) }

ParentPath(q) ==
    LET before == { k \in Commas(q) : k < Len(q) }
    IN IF before = {} THEN <<>>
       ELSE SubSeq(q, 1, CHOOSE k \in before : \A j \in before : j <= k)

DistinctMatpaths(list) ==
    \A i, j \in 1..Len(list) : list[i].matpath = list[j].matpath => i = j

\* C15: after add_hostgroups_from_matpaths(p) the collection holds, for every
\* comma-terminated prefix q of p, a hostgroup whose matpath is q and whose
\* parent's matpath is the next-shorter prefix.
C15_EveryPrefixAdded ==
    Returned("add_hostgroups_from_matpaths") =>
        \A m \in 1..Len(args.matpaths) : \A q \in PrefixesOf(args.matpaths[m]) :
            \E i \in 1..Len(objects) :
                /\ objects[i].matpath = q
                /\ ParentPath(q) # <<>> =>
                       /\ objects[i].parent # <<>>
                       /\ objects[i].parent[1].matpath = ParentPath(q)

\* C16: a hostgroup constructed anew with the matpath of a member of the
\* collection is found in the collection, so add_hostgroups_from_matpaths
\* leaves a collection of pairwise distinct matpaths pairwise distinct.
C16_EqualMatpathsCompareEqual ==
    Returned("add_hostgroups_from_matpaths") =>
        /\ \A i \in 1..Len(objects) :
               Contains(objects, HostGroup(objects[i].name, objects[i].parent))
        /\ DistinctMatpaths(args.self) => DistinctMatpaths(objects)

\* C17: in the collection that process leaves, every hostgroup comes before
\* each of its descendants; sort_by_depth puts the hostgroups in ascending
\* order of their comma count and keeps the order of those of equal count.
IsStableSortByDepth(before, after) ==
    /\ Len(after) = Len(before)
    /\ \E perm \in [1..Len(before) -> 1..Len(before)] :
          /\ \A k, l \in 1..Len(before) : perm[k] = perm[l] => k = l
          /\ \A k \in 1..Len(before) : after[k] = before[perm[k]]
          /\ \A k, l \in 1..Len(before) :
                k < l => \/ Depth(after[k]) < Depth(after[l])
                         \/ Depth(after[k]) = Depth(after[l]) /\ perm[k] < perm[l]

IsDescendant(g, h) == g.matpath # h.matpath /\ StartsWith(g.matpath, h.matpath)

C17_AncestorsFirst ==
    /\ Returned("sort_by_depth") => IsStableSortByDepth(args.self, objects)
    /\ Returned("process") =>
           \A i, j \in 1..Len(objects) : IsDescendant(objects[j], objects[i]) => i < j

C17_Witness ==
    /\ Returned("process") /\ Len(objects) >= 3
    /\ \E i, j \in 1..Len(args.self) : i < j /\ IsDescendant(args.self[i], args.self[j])
    /\ \E i, j \in 1..Len(objects) : IsDescendant(objects[j], objects[i])
    /\ \E i \in 1..Len(objects) : \A j \in 1..Len(args.self) : args.self[j] # objects[i]

\* C18: a hostgroup with a parent has the parent's matpath, its own name and
\* a comma as its matpath, and so has every ancestor; the hostgroup without a
\* parent is the root, named Opsview with matpath "Opsview,"; a hostgroup
\* constructed without a parent under another name has the root as parent.
RECURSIVE IsWellFormed(_)
IsWellFormed(g) ==
    IF g.parent = <<>>
    THEN g.name = <<"Opsview">> /\ g.matpath = <<"Opsview", ",">>
    ELSE /\ g.matpath = g.parent[1].matpath \o g.name \o <<",">>
         /\ IsWellFormed(g.parent[1])

C20_MergeKeepsOtherMatpaths ==
    (Returned("merge") /\ args.type = "HostGroupList") =>
        \A i \in 1..Len(args.self) :
            (\A j \in 1..Len(args.other) : args.other[j].matpath # args.self[i].matpath)
                => \E k \in 1..Len(objects) : objects[k] = args.self[i]

\* C21: without_duplicates keeps, of the objects of each key (the name; the
\* matpath in a hostgroup collection), exactly the first one, in the order
\* they had; applied to its own result it changes nothing.
IsFirstOccurrences(before, after, key) ==
    LET first == { i \in 1..Len(before) :
                       \A j \in 1..(i - 1) : before[j][key] # before[i][key] }
    IN /\ Len(after) = Cardinality(first)
       /\ \E at \in [1..Len(after) -> first] :
             /\ \A k, l \in 1..Len(after) : k < l => at[k] < at[l]
             /\ \A k \in 1..Len(after) : after[k] = before[at[k]]

C21_FirstOccurrenceKept ==
    Returned("without_duplicates") =>
        /\ IsFirstOccurrences(args.self, objects, KeyOf(args.type))
        /\ without_duplicates(objects, KeyOf(args.type)) = objects

C21_Witness ==
    /\ Returned("without_duplicates")
    /\ Len(args.self) = 3 /\ Len(objects) = 2
    /\ args.self[1][KeyOf(args.type)] = args.self[3][KeyOf(args.type)]
    /\ args.self[1] # args.self[3]

\* C22: a check of a memoized inventory (Host.exists, HostGroup.exists,
\* Variable.exists, a purge step) enumerates the entity type only if the
\* session has not enumerated it yet, and then once.
C22_EnumeratedOnFirstAccessOnly ==
    [][\A type \in EntityTypes :
           enumerated'[type] > enumerated[type] =>
               /\ type \notin has
               /\ enumerated'[type] = enumerated[type] + 1]_vars

\* C23: a create, delete or reload request that fails is the last request of
\* the run, which ends with an exception; what the requests before it
\* changed stays changed: the hosts created are in the target, the hosts
\* deleted are not.
C23_FailureEndsTheRun ==
    /\ \A i \in 1..Len(log) :
           (Mutates(log[i]) /\ ~log[i].ok) =>
               (i = Len(log) /\ pc = "raised" /\ exit_code # 0)
    /\ \A i \in 1..Len(log) :
           (Is(log[i], "POST", "host") /\ log[i].ok) =>
               Range(log[i].keys) \subseteq { h.name : h \in tHosts }
    /\ \A i \in 1..Len(log) :
           (Is(log[i], "DELETE", "host") /\ log[i].ok) =>
               Range(log[i].keys) \cap { h.id : h \in tHosts } = {}

C23_Witness ==
    /\ pc = "raised" /\ Len(log) >= 3
    /\ Mutates(log[Len(log)]) /\ ~log[Len(log)].ok
    /\ Is(log[1], "DELETE", "host") /\ log[1].ok
    /\ tPending

\* C24: HostList.delete sends one DELETE request that names every host of a
\* non-empty collection, and a step with no host to delete sends none;
\* hashtags, hostgroups and variables are deleted one identifier per request,
\* each identifier of the list in turn.
Sends(kind, type) == Len(log') = Len(log) + 1 /\ Is(log'[Len(log')], kind, type)

C24_HostsInOneRequestOthersOneEach ==
    [][ /\ Len(log') <= Len(log) + 1
        /\ Sends("DELETE", "host") =>
               LET list == IF pc = "sync_delete" THEN hosts_to_delete ELSE objects
               IN /\ pc \in {"sync_delete", "purge_delete_hosts"}
                  /\ list # <<>>
                  /\ log'[Len(log')].keys = [i \in 1..Len(list) |-> list[i].id]
                  /\ \A i, j \in 1..Len(list) : list[i].id = list[j].id => i = j
        /\ (pc = "sync_from_snow_instance" /\ pc' = "sync_delete") => hosts_to_delete' # <<>>
        /\ (pc = "purge_snow_hosts" /\ pc' = "purge_delete_hosts") => objects' # <<>>
        /\ (pc = "purge_snow_hosts" /\ objects' = <<>>) => pc' = "purge_confirm"
        /\ \A type \in {"keyword", "hostgroup", "attribute"} :
               Sends("DELETE", type) =>
                   /\ Len(log'[Len(log')].keys) = 1
                   /\ pc # "purge_root_snow_hostgroup" =>
                          /\ ids_to_delete # <<>>
                          /\ log'[Len(log')].keys = <<Head(ids_to_delete)>>
                          /\ log'[Len(log')].ok => ids_to_delete' = Tail(ids_to_delete)
      ]_vars

C24_Witness ==
    /\ \E i \in 1..Len(log) : Is(log[i], "DELETE", "host") /\ Len(log[i].keys) = 2
    /\ \E i, j \in 1..Len(log) :
          /\ i < j /\ Is(log[i], "DELETE", "hostgroup") /\ Is(log[j], "DELETE", "hostgroup")
          /\ log[i].keys # log[j].keys
    /\ pc = "exit"

\* C25: an entity of any class that has been constructed has a name that is
\* not empty; the constructor fails on an empty name.
C25_NoEntityWithEmptyName ==
    (args.op = "__init__" /\ pc # "call") =>
        IF args.name = <<>> THEN pc = "raised" /\ objects = <<>>
        ELSE pc = "returned" /\ objects[1].name = args.name

\* C26: valid_quorum_pct(pct, n) is true exactly if pct is less than 0.01
\* away from 100 * k / n for some k in 0..n (in hundredths: less than 1 away
\* from 10000 * k / n); so it is true for (66.67, 3) and for (100.00, n) and
\* false for (50.00, 3).
C26_ValidIffNearARatio ==
    Returned("valid_quorum_pct") =>
        LET pct == args.quorum_pct
            n == args.number_of_hosts
        IN /\ objects[1] = (\E k \in 0..n : Abs(pct * n - 10000 * k) < n)
           /\ (pct = 6667 /\ n = 3) => objects[1]
           /\ (pct = 5000 /\ n = 3) => ~objects[1]
           /\ pct = 10000 => objects[1]

\* C27: the payload of a shallow as_json, of any entity type, has no field
\* whose value is None, the empty string, the empty list or the flag "0".
C27_ShallowJsonHasNoFalsyField ==
    (Returned("as_json") /\ args.shallow) =>
        \A key \in DOMAIN objects[1] :
            objects[1][key] \notin (Falsy \cup {"'0'"})

\* C28: a run for instance X sends no DELETE for a host that is not tagged
\* SERVICENOW_INSTANCE = X nor for a hostgroup whose matpath does not start
\* with "Opsview,ServiceNow,X," (the ServiceNow root group apart), and no
\* step removes such a host or hostgroup from the target; those of instance
\* Y, whose identifier begins with X, stay.
MayDeleteHostgroup(g) ==
    StartsWith(g.matpath, InstanceMatpath(InstanceX)) \/ g.matpath = ServiceNowMatpath

C28_OnlyTheInstanceIsDeleted ==
    [][ /\ Sends("DELETE", "host") =>
               \A k \in 1..Len(log'[Len(log')].keys) :
                   \E h \in tHosts : /\ h.id = log'[Len(log')].keys[k]
                                     /\ h \in Tagged(InstanceX)
        /\ Sends("DELETE", "hostgroup") =>
               \A k \in 1..Len(log'[Len(log')].keys) :
                   \E g \in tHostgroups' \cup tHostgroups :
                       g.id = log'[Len(log')].keys[k] /\ MayDeleteHostgroup(g)
        /\ "host" \in observed =>
               \A h \in tHosts : h \notin Tagged(InstanceX) => h \in tHosts'
        /\ "hostgroup" \in observed =>
               \A g \in tHostgroups : ~MayDeleteHostgroup(g) => g \in tHostgroups'
      ]_vars

C28_Witness ==
    /\ pc = "exit" /\ exit_code = 0
    /\ \E i \in 1..Len(log) : Is(log[i], "DELETE", "host") /\ log[i].ok
    /\ \E i \in 1..Len(log) :
          Is(log[i], "DELETE", "hostgroup") /\ log[i].ok /\ ~IsRootGroupId(log[i].keys)
    /\ Tagged(InstanceX) = {}
    /\ \E g \in tHostgroups : g.matpath = InstanceMatpath(InstanceY)
    /\ ~ \E g \in tHostgroups : StartsWith(g.matpath, InstanceMatpath(InstanceX))

\* ------------------------------------------------ claims on repeated passes
TaggedNames(inst) == { h.name : h \in Tagged(inst) }

\* the names of the target's hosts that are not hosts of the instance
ForeignNames(inst) == { h.name : h \in tHosts \ Tagged(inst) }

\* host requests are sent by the first two passes only
QuietAfterTwoPasses ==
    \A i \in 1..Len(log) :
        Mutates(log[i]) =>
            Cardinality({ j \in 1..i : log[j].kind = "pass" }) <= 2

\* C29, as claimed: after two passes the names of the hosts tagged with the
\* instance are the desired names, and no later pass sends a host request.
C29_SyncConverges ==
    /\ Passes >= 2 => TaggedNames(InstanceX) = Names(snow_hosts)
    /\ QuietAfterTwoPasses

\* C29, amended: after two passes the names of the hosts tagged with the
\* instance are the desired names that no other host of the target bears,
\* every desired name is the name of a host of the target, and no later pass
\* sends a host request.
C29_SyncConvergesUpToForeignNames ==
    /\ Passes >= 2 =>
           /\ TaggedNames(InstanceX) = Names(snow_hosts) \ ForeignNames(InstanceX)
           /\ Names(snow_hosts) \subseteq { h.name : h \in tHosts }
    /\ QuietAfterTwoPasses

C29_Witness ==
    /\ Passes = MaxPasses
    /\ Len(log) = MaxPasses + 2
    /\ log[1].type = "delete" /\ log[3].type = "create" /\ Is(log[4], "POST", "host")
    /\ TaggedNames(InstanceX) = Names(snow_hosts)

\* ------------------------------------------------------ the declined purge
Declined(e) == Is(e, "input", "purge") /\ ~e.ok

\* C30: once the prompt of purge_snow_hosts is declined, no hashtag,
\* hostgroup or variable is deleted; every delete request of the run is a
\* delete of hosts and was sent before the prompt.
C30_DeclinedPurgeDeletesHostsOnly ==
    \A i \in 1..Len(log) :
        Declined(log[i]) =>
            \A j \in 1..Len(log) :
                log[j].kind = "DELETE" => log[j].type = "host" /\ j < i

C30_Witness ==
    /\ pc = "exit" /\ exit_code = 0
    /\ \E i \in 2..Len(log) :
          /\ Declined(log[i])
          /\ Is(log[i - 1], "DELETE", "host") /\ log[i - 1].ok
    /\ Tagged(instance) = {}

====
